---- MODULE Spec2Model ----
(***************************************************************************)
(* Piiaanoo (src/src/App.tsx): the music-theory helpers, the audio engine  *)
(* hook (useAudioEngine: context, note registry, capture, external media)  *)
(* and the CassetteRecorder component, as a state machine.                 *)
(*                                                                         *)
(* Conventions.                                                            *)
(*  - A JavaScript string that the code parses or builds (a note name) is  *)
(*    a sequence of one-character strings: "C#4" is <<"C","#","4">>.       *)
(*  - A value that may be null/undefined is a record [some, val].          *)
(*  - A frequency 440 * 2^(t/12) * f/10 is the record [hz |-> 440,         *)
(*    twelfths |-> t, tenths |-> f]; the number 0 is the record with       *)
(*    hz = 0.  No rounding is modelled: the exponent is kept exact.        *)
(*  - The audio clock (ctx.currentTime, seconds) and Date.now() are kept   *)
(*    in milliseconds.                                                     *)
(*  - A React handler runs to completion as one action.  The state a       *)
(*    handler reads is the state of the render that created it; a timer    *)
(*    callback keeps the handler (and the state) of the render that armed  *)
(*    the timer.                                                           *)
(***************************************************************************)
EXTENDS Integers, Sequences, FiniteSets, TLC

(***************************************************************************)
(* Bounds of the model.                                                    *)
(***************************************************************************)
\* voices created in one run
MaxVoices == 3
\* pitch ids below zero that quantizeToScale is tried on: -MidiBelow .. -1
MidiBelow == 24
\* the largest pitch id quantizeToScale is tried on
MaxMidi == 143
\* the longest malformed note name tried
MaxNameLen == 4
\* the audio clock runs from 0 to MaxClock (ms)
MaxClock == 1

(***************************************************************************)
(* Optional values.                                                        *)
(***************************************************************************)
Null == [some |-> FALSE, val |-> 0]

Some(v) == [some |-> TRUE, val |-> v]

(***************************************************************************)
(* JavaScript arithmetic.                                                  *)
(***************************************************************************)
\* a % b of JavaScript: the sign of the dividend
JsMod(a, b) == IF a >= 0 THEN a % b ELSE 0 - ((0 - a) % b)

\* Math.floor(a / b), b > 0
FloorDiv(a, b) == IF a >= 0 THEN a \div b ELSE 0 - (((0 - a) + b - 1) \div b)

Abs(a) == IF a >= 0 THEN a ELSE 0 - a

Min2(a, b) == IF a <= b THEN a ELSE b

Max2(a, b) == IF a >= b THEN a ELSE b

Letters == {"A", "B", "C", "D", "E", "F", "G"}

Digits == {"0", "1", "2", "3", "4", "5", "6", "7", "8", "9"}

DigitChars == <<"0", "1", "2", "3", "4", "5", "6", "7", "8", "9">>

\* parseInt(d, 10) of one decimal digit
ParseDigit(d) == (CHOOSE i \in 1..10 : DigitChars[i] = d) - 1

RECURSIVE DecDigits(_)
DecDigits(n) ==
  IF n < 10 THEN <<DigitChars[n + 1]>>
  ELSE DecDigits(n \div 10) \o <<DigitChars[(n % 10) + 1]>>

\* `${n}` of an integer
ToDecimal(n) == IF n < 0 THEN <<"-">> \o DecDigits(0 - n) ELSE DecDigits(n)

(***************************************************************************)
(* Music theory: src/src/App.tsx lines 16-82.                              *)
(***************************************************************************)
SCALE_INTERVALS == [major |-> <<0, 2, 4, 5, 7, 9, 11>>]

\* the table with the major shape at every degree
MajorTriadsOnly ==
  [major |-> << <<0, 4, 7>>, <<0, 4, 7>>, <<0, 4, 7>>, <<0, 4, 7>>,
                <<0, 4, 7>>, <<0, 4, 7>>, <<0, 4, 7>> >>]

BASE_TRIADS ==
  [major |-> << <<0, 4, 7>>, <<0, 3, 7>>, <<0, 3, 7>>, <<0, 4, 7>>,
                <<0, 4, 7>>, <<0, 3, 7>>, <<0, 3, 6>> >>]

CHORD_PRESET ==
  [keyRoot |-> "C", scaleType |-> "major", chordMode |-> "triad", inversion |-> "root"]

NoMatch == [ok |-> FALSE, letter |-> "", sharp |-> FALSE, octave |-> ""]

\* the pattern without its end anchor: /^([A-G])(#?)(\d)/
NoteMatchPrefix(note) ==
  IF Len(note) >= 1 /\ note[1] \in Letters
  THEN LET sharp == Len(note) >= 2 /\ note[2] = "#"
           p == IF sharp THEN 3 ELSE 2
       IN IF Len(note) >= p /\ note[p] \in Digits
          THEN [ok |-> TRUE, letter |-> note[1], sharp |-> sharp, octave |-> note[p]]
          ELSE NoMatch
  ELSE NoMatch

\* note.match(/^([A-G])(#?)(\d)$/): the letter, the greedy optional sharp, one
\* digit, the end of the string.  Giving the sharp back cannot help: the
\* character it matched is no digit.
NoteMatch(note) ==
  IF Len(note) >= 1 /\ note[1] \in Letters
  THEN LET sharp == Len(note) >= 2 /\ note[2] = "#"
           p == IF sharp THEN 3 ELSE 2
       IN IF Len(note) = p /\ note[p] \in Digits
          THEN [ok |-> TRUE, letter |-> note[1], sharp |-> sharp, octave |-> note[p]]
          ELSE NoMatch
  ELSE NoMatch

FreqZero == [hz |-> 0, twelfths |-> 0, tenths |-> 10]

\* f * factor, factor given in tenths
FreqTimes(f, tenths) ==
  IF f.hz = 0 \/ tenths = 0 THEN FreqZero
  ELSE [f EXCEPT !.tenths = (f.tenths * tenths) \div 10]

\* !f of a number
FreqFalsy(f) == f.hz = 0 \/ f.tenths = 0

\* a table that puts F a semitone too high
semitoneMapSharpF == [C |-> -9, D |-> -7, E |-> -5, F |-> -3, G |-> -2, A |-> 0, B |-> 2]

semitoneMap == [C |-> -9, D |-> -7, E |-> -5, F |-> -4, G |-> -2, A |-> 0, B |-> 2]

noteToFrequency(note) ==
  LET match == NoteMatch(note)
  IN IF ~match.ok THEN FreqZero
     ELSE LET semitone == semitoneMap[match.letter] + (IF match.sharp THEN 1 ELSE 0)
              octs == ParseDigit(match.octave) - 4
          IN [hz |-> 440, twelfths |-> 12 * octs + semitone, tenths |-> 10]

baseMap == [C |-> 0, D |-> 2, E |-> 4, F |-> 5, G |-> 7, A |-> 9, B |-> 11]

noteNameToMidi(note) ==
  LET match == NoteMatch(note)
  IN IF ~match.ok THEN Null
     ELSE LET base == baseMap[match.letter] + (IF match.sharp THEN 1 ELSE 0)
          IN Some(base + 12 * (ParseDigit(match.octave) + 1))

noteNames ==
  << <<"C">>, <<"C", "#">>, <<"D">>, <<"D", "#">>, <<"E">>, <<"F">>,
     <<"F", "#">>, <<"G">>, <<"G", "#">>, <<"A">>, <<"A", "#">>, <<"B">> >>

\* midiToNoteName with the octave of Math.trunc(midi / 12), not lowered by one
midiToNoteNameOctaveUp(midi) ==
  LET octave == FloorDiv(midi, 12)
      name == noteNames[((JsMod(midi, 12) + 12) % 12) + 1]
  IN name \o ToDecimal(octave)

midiToNoteName(midi) ==
  LET octave == FloorDiv(midi, 12) - 1
      name == noteNames[((JsMod(midi, 12) + 12) % 12) + 1]
  IN name \o ToDecimal(octave)

\* the forEach body with `d <= min` for `d < min`
QuantizeStepLast(acc, iv, diff) ==
  LET d == Min2(JsMod(diff - iv + 12, 12), JsMod(iv - diff + 12, 12))
  IN IF d <= acc.min THEN [closest |-> iv, min |-> d] ELSE acc

\* one step of the forEach of quantizeToScale: acc = [closest, min]
QuantizeStep(acc, iv, diff) ==
  LET d == Min2(JsMod(diff - iv + 12, 12), JsMod(iv - diff + 12, 12))
  IN IF d < acc.min THEN [closest |-> iv, min |-> d] ELSE acc

RECURSIVE QuantizeFold(_, _, _, _)
QuantizeFold(intervals, i, acc, diff) ==
  IF i > Len(intervals) THEN acc
  ELSE QuantizeFold(intervals, i + 1, QuantizeStep(acc, intervals[i], diff), diff)

\* quantizeToScale with the key root's pitch id not folded into one octave
quantizeWholeRoot(midi, keyRoot, scaleType) ==
  LET rootMidi == noteNameToMidi(<<keyRoot, "4">>).val
      intervals == SCALE_INTERVALS[scaleType]
      diff == JsMod(JsMod(midi, 12) - rootMidi + 12, 12)
      best == QuantizeFold(intervals, 1, [closest |-> intervals[1], min |-> 12], diff)
      baseOct == FloorDiv(midi, 12)
      t0 == rootMidi + best.closest + baseOct * 12
      t1 == IF t0 - midi > 6 THEN t0 - 12 ELSE t0
      t2 == IF midi - t1 > 6 THEN t1 + 12 ELSE t1
  IN t2

quantizeToScale(midi, keyRoot, scaleType) ==
  LET rootMidi == JsMod(noteNameToMidi(<<keyRoot, "4">>).val, 12)
      intervals == SCALE_INTERVALS[scaleType]
      diff == JsMod(JsMod(midi, 12) - rootMidi + 12, 12)
      best == QuantizeFold(intervals, 1, [closest |-> intervals[1], min |-> 12], diff)
      baseOct == FloorDiv(midi, 12)
      t0 == rootMidi + best.closest + baseOct * 12
      t1 == IF t0 - midi > 6 THEN t0 - 12 ELSE t0
      t2 == IF midi - t1 > 6 THEN t1 + 12 ELSE t1
  IN t2

\* one step of the reduce of buildChord: bestIdx and idx are 0-based
DegreeStep(intervals, bestIdx, iv, idx, degreeDiff) ==
  LET d == Abs(degreeDiff - iv)
      best == Abs(degreeDiff - intervals[bestIdx + 1])
  IN IF d < best THEN idx ELSE bestIdx

RECURSIVE DegreeFold(_, _, _, _)
DegreeFold(intervals, i, bestIdx, degreeDiff) ==
  IF i > Len(intervals) THEN bestIdx
  ELSE DegreeFold(intervals, i + 1,
                  DegreeStep(intervals, bestIdx, intervals[i], i - 1, degreeDiff),
                  degreeDiff)

buildChord(note) ==
  LET midi == noteNameToMidi(note)
  IN IF ~midi.some THEN <<note>>
     ELSE LET rootMidi == noteNameToMidi(<<CHORD_PRESET.keyRoot, "4">>).val
              intervals == SCALE_INTERVALS[CHORD_PRESET.scaleType]
              degreeDiff == JsMod(JsMod(midi.val, 12) - JsMod(rootMidi, 12) + 12, 12)
              degreeIndex == DegreeFold(intervals, 1, 0, degreeDiff)
              degree == degreeIndex + 1
              baseTriad == BASE_TRIADS.major[((degree - 1) % 7) + 1]
              degreeRootMidi ==
                quantizeToScale(midi.val, CHORD_PRESET.keyRoot, CHORD_PRESET.scaleType)
          IN [i \in 1..Len(baseTriad) |-> midiToNoteName(degreeRootMidi + baseTriad[i])]

(***************************************************************************)
(* The state.                                                              *)
(***************************************************************************)
VARIABLES
  ctx,          \* ctxRef and the refs set with it: [made, state, sampleRate]
  edges,        \* the connections of the audio graph: records [from, to]
  currentTime,  \* ctx.currentTime, in ms
  voices,       \* every voice createVoice returned: [freq, mode, start]
  activeNotes,  \* activeNotes.current: id -> [kind, vs]
  stopLog,      \* the voices whose stop() was invoked, in order of invocation
  capture,      \* captureRef.current: [active, left, right, processor, tap, sampleRate]
  arrays,       \* the heap of chunk arrays: arrays[a] is the array with reference a
  nextNode,     \* the tap and processor nodes created so far, plus one
  pcm,          \* what the last stopCapture() returned: [left, right, sampleRate]
  timers,       \* the browser's live timers: [id, kind, at, closure]
  nextTimer,    \* the timer ids handed out so far, plus one
  urls,         \* the object URLs created and not revoked
  nextUrl,      \* the object URLs created so far, plus one
  rec,          \* CassetteRecorder: its state and its refs
  recordingActive, \* App's recordingActiveRef.current
  now,          \* Date.now(), in ms
  trail,        \* the setStatus calls of the last handler, in order
  calls,        \* how often startCapture, stopCapture and the encoder ran
  delivered,    \* the chunks the tap callback was handed while capture was active
  startedAt,    \* Date.now() when the last recording started
  lastCall,     \* the last operation invoked: [op, id, threw, arg]
  probe,        \* the argument of a music-theory function and what it returned
  recordLog,    \* App's recordLogRef.current: [type, note], in order of time
  appMode,      \* App's mode (the state of useState, line 707)
  active,       \* App's active: the notes shown as held
  visualQueue,  \* the pending timeouts of playVisualLog, in firing order
  externalRef,  \* externalRef.current: the media element last started, or null
  medias,       \* every Audio element playExternal made: [url, state, notify]
  enc,          \* a run of encodePcmToMp3: its position and its locals
  showRecorder  \* App's showRecorder: the recorder panel is mounted

noteVars == <<currentTime, voices, activeNotes, stopLog>>

recVars ==
  <<capture, arrays, nextNode, pcm, timers, nextTimer, urls, nextUrl, rec,
    recordingActive, now, trail, calls, delivered, startedAt, recordLog, externalRef,
    medias>>

appVars == <<appMode, active, visualQueue>>

(***************************************************************************)
(* Inputs.                                                                 *)
(***************************************************************************)
Modes == {"piano", "kalimba", "chordz"}

Ids == {"k1", "k2"}

\* the names the registry is played with: one well-formed, two malformed
NoteInputs == { <<"C", "4">>, <<"H", "4">>, <<"C", "1", "0">> }

ChordInputs ==
  { <<>>,
    << <<"C", "4">>, <<"E", "4">>, <<"G", "4">> >>,
    << <<"C", "4">>, <<"H", "4">>, <<"G", "4">> >>,
    << <<"H", "4">> >> }

\* strumMs: 0 (handlePress) and the default 10
StrumInputs == {0, 10}

\* startTime of playNote: no caller passes it (line 768)
StartInputs == {Null}

CtxStartStates == {"running", "suspended"}

\* line 116: the rate captureRef starts with
DefaultRate == 44100

SampleRates == {DefaultRate, 48000}

(***************************************************************************)
(* useAudioEngine: the context.  src/src/App.tsx lines 118-144.            *)
(***************************************************************************)
Node(kind, n) == [kind |-> kind, n |-> n]

Edge(from, to) == [from |-> from, to |-> to]

Master == Node("master", 0)

Destination == Node("destination", 0)

\* the connections ensureContext makes
Wiring ==
  { Edge(Master, Node("analyser", 0)), Edge(Master, Destination),
    Edge(Master, Node("mediaDest", 0)), Edge(Node("reverb", 0), Master),
    Edge(Node("reverb", 0), Node("analyser", 0)),
    Edge(Node("reverb", 0), Node("mediaDest", 0)) }

NoCtx == [made |-> 0, state |-> "none", sampleRate |-> 0]

\* ensureContext that constructs without looking at ctxRef.current
EnsuredCtxAlwaysNew(c, st, rate) ==
  [made |-> c.made + 1, state |-> st, sampleRate |-> rate]

\* ctxRef.current after ensureContext(); a new context starts in state st
\* with sample rate `rate`.  `made` counts the runs of lines 123-143, each of
\* which constructs one context, master bus, analyser, recording tap and reverb.
EnsuredCtx(c, st, rate) ==
  IF c.state # "none"
  THEN IF c.state = "suspended" THEN [c EXCEPT !.state = "running"] ELSE c
  ELSE [made |-> c.made + 1, state |-> st, sampleRate |-> rate]

\* the graph after ensureContext()
EnsuredEdges(c, e) == IF c.state # "none" THEN e ELSE e \cup Wiring

ensureContext(st, rate) ==
  /\ ctx' = EnsuredCtx(ctx, st, rate)
  /\ edges' = EnsuredEdges(ctx, edges)

(***************************************************************************)
(* useAudioEngine: the note registry.  src/src/App.tsx lines 146-346.      *)
(***************************************************************************)
NoEntry == [kind |-> "none", vs |-> <<>>]

\* createVoice(frequency, mode, startTime): now = startTime ?? ctx.currentTime
createVoice(frequency, mode, startTime) ==
  [freq |-> frequency, mode |-> mode,
   start |-> IF startTime.some THEN startTime.val ELSE currentTime]

\* line 315
NoteFreqFactor(mode) == IF mode = "piano" \/ mode = "chordz" THEN 5 ELSE 10

\* line 327
ChordFreqFactor(mode) == IF mode = "chordz" THEN 5 ELSE 10

\* playNote without the registry test
PlayNoteReturnsNoHas(freq, id) == FreqFalsy(freq)

\* line 317: if (!freq || activeNotes.current.has(id)) return
PlayNoteReturns(freq, id) == FreqFalsy(freq) \/ activeNotes[id].kind # "none"

\* playChord without the registry test
PlayChordReturnsNever(id) == FALSE

\* line 324: if (activeNotes.current.has(id)) return
PlayChordReturns(id) == activeNotes[id].kind # "none"

\* line 328: if (!freq) return
ChordNoteSkipped(freq) == FreqFalsy(freq)

\* a chord whose voices all start at once, whatever strumMs
StrumStartAtOnce(idx, strumMs) == currentTime

\* line 329: currentTime + (idx * strumMs / 1000), in ms
StrumStart(idx, strumMs) == currentTime + (idx * strumMs)

\* lines 326-332: the voices of notes[i..], idx = i - 1
RECURSIVE ChordVoices(_, _, _, _)
ChordVoices(notes, i, mode, strumMs) ==
  IF i > Len(notes) THEN <<>>
  ELSE LET freq == FreqTimes(noteToFrequency(notes[i]), ChordFreqFactor(mode))
           startTime == StrumStart(i - 1, strumMs)
           rest == ChordVoices(notes, i + 1, mode, strumMs)
       IN IF ChordNoteSkipped(freq) THEN rest
          ELSE <<createVoice(freq, mode, Some(startTime))>> \o rest

\* an invocation: the operation, its identifier, whether it threw, and the
\* strum offset of a playChord
Call(op, id) == [op |-> op, id |-> id, threw |-> FALSE, arg |-> 0]

\* the operation ended in a TypeError
Threw(op, id) == [op |-> op, id |-> id, threw |-> TRUE, arg |-> 0]

\* playNote, lines 313-320
playNote(note, mode, id, startTime, st, rate) ==
  /\ ensureContext(st, rate)
  /\ LET freqFactor == NoteFreqFactor(mode)
         freq == FreqTimes(noteToFrequency(note), freqFactor)
     IN IF PlayNoteReturns(freq, id)
        THEN UNCHANGED <<voices, activeNotes>>
        ELSE /\ voices' = Append(voices, createVoice(freq, mode, startTime))
             /\ activeNotes' =
                  [activeNotes EXCEPT ![id] = [kind |-> "single", vs |-> <<Len(voices) + 1>>]]
  /\ UNCHANGED <<currentTime, stopLog>>

PlayNote(note, mode, id, startTime, st, rate) ==
  /\ Len(voices) < MaxVoices
  /\ playNote(note, mode, id, startTime, st, rate)
  /\ lastCall' = Call("playNote", id)
  /\ UNCHANGED <<recVars, probe, enc, showRecorder, appVars>>

\* playChord, lines 322-334
playChord(notes, mode, id, strumMs, st, rate) ==
  /\ ensureContext(st, rate)
  /\ IF PlayChordReturns(id)
     THEN UNCHANGED <<voices, activeNotes>>
     ELSE LET made == ChordVoices(notes, 1, mode, strumMs)
          IN /\ voices' = voices \o made
             /\ activeNotes' =
                  IF Len(made) > 0
                  THEN [activeNotes EXCEPT ![id] =
                          [kind |-> "list",
                           vs |-> [k \in 1..Len(made) |-> Len(voices) + k]]]
                  ELSE activeNotes
  /\ UNCHANGED <<currentTime, stopLog>>

PlayChord(notes, mode, id, strumMs, st, rate) ==
  /\ Len(voices) + Len(ChordVoices(notes, 1, mode, strumMs)) <= MaxVoices
  /\ playChord(notes, mode, id, strumMs, st, rate)
  /\ lastCall' = [Call("playChord", id) EXCEPT !.arg = strumMs]
  /\ UNCHANGED <<recVars, probe, enc, showRecorder, appVars>>

\* stopNote without the test of what get(id) returned
StopNoteFindsAlways(id) == TRUE

\* line 338: if (voice)
StopNoteFinds(id) == activeNotes[id].kind # "none"

\* stopNote that takes a list for a single voice
StoppedFirstOnly(entry) == IF Len(entry.vs) > 0 THEN <<entry.vs[1]>> ELSE <<>>

\* lines 339-343: stop() on the voice, or on each voice of the list in order
StoppedVoices(entry) == entry.vs

\* voice.stop() throws when get(id) returned undefined
StopNoteThrows(id) == StopNoteFinds(id) /\ activeNotes[id].kind = "none"

\* stopNote, lines 336-346
stopNote(id) ==
  /\ IF StopNoteFinds(id) /\ ~StopNoteThrows(id)
     THEN /\ stopLog' = stopLog \o StoppedVoices(activeNotes[id])
          /\ activeNotes' = [activeNotes EXCEPT ![id] = NoEntry]
     ELSE UNCHANGED <<stopLog, activeNotes>>
  /\ UNCHANGED <<ctx, edges, currentTime, voices>>

StopNote(id) ==
  /\ stopNote(id)
  /\ lastCall' = IF StopNoteThrows(id) THEN Threw("stopNote", id) ELSE Call("stopNote", id)
  /\ UNCHANGED <<recVars, probe, enc, showRecorder, appVars>>

\* the window's pointerdown and keydown listeners: lines 797, 816
EnsureContext(st, rate) ==
  /\ ensureContext(st, rate)
  /\ lastCall' = Call("ensureContext", "")
  /\ UNCHANGED <<noteVars, recVars, probe, enc, showRecorder, appVars>>

\* the audio clock of a running context advances
AdvanceClock ==
  /\ ctx.state = "running"
  /\ currentTime < MaxClock
  /\ currentTime' = currentTime + 1
  /\ UNCHANGED <<ctx, edges, voices, activeNotes, stopLog, lastCall, recVars, probe, enc, showRecorder, appVars>>

(***************************************************************************)
(* Program constants of the recorder.                                      *)
(***************************************************************************)
\* line 358: createScriptProcessor(4096, 2, 2)
ProcBufferSize == 4096
\* line 572
BlockSize == 1152
\* line 625: the period of the countdown interval
TickMs == 50
\* lines 549, 609, 629: the ceiling of a recording
MaxRecordMs == 30000

(***************************************************************************)
(* Bounds of the recorder model.                                           *)
(***************************************************************************)
\* recordings started in one run
MaxSessions == 2
\* tap callbacks in one run
MaxChunks == 2
\* Date.now() is observed every ClockStep ms (at least TickMs)
ClockStep == 10000
\* Date.now() runs from 0 to MaxNow
MaxNow == 40000

\* the frame counts of the buffers the tap callback is handed
ChunkLens == {ProcBufferSize, ProcBufferSize \div 4}

(***************************************************************************)
(* The state a handler works on, as one record.                            *)
(***************************************************************************)
World ==
  [ctx |-> ctx, edges |-> edges, capture |-> capture, arrays |-> arrays,
   nextNode |-> nextNode, pcm |-> pcm, timers |-> timers, nextTimer |-> nextTimer,
   urls |-> urls, nextUrl |-> nextUrl, rec |-> rec,
   recordingActive |-> recordingActive, trail |-> <<>>, calls |-> calls,
   delivered |-> delivered, startedAt |-> startedAt, recordLog |-> recordLog,
   externalRef |-> externalRef, medias |-> medias]

SetWorld(w) ==
  /\ ctx' = w.ctx
  /\ edges' = w.edges
  /\ capture' = w.capture
  /\ arrays' = w.arrays
  /\ nextNode' = w.nextNode
  /\ pcm' = w.pcm
  /\ timers' = w.timers
  /\ nextTimer' = w.nextTimer
  /\ urls' = w.urls
  /\ nextUrl' = w.nextUrl
  /\ rec' = w.rec
  /\ recordingActive' = w.recordingActive
  /\ trail' = w.trail
  /\ calls' = w.calls
  /\ delivered' = w.delivered
  /\ startedAt' = w.startedAt
  /\ recordLog' = w.recordLog
  /\ externalRef' = w.externalRef
  /\ medias' = w.medias

\* ensureContext() on a world
WithContext(w, st, rate) ==
  [w EXCEPT !.ctx = EnsuredCtx(w.ctx, st, rate), !.edges = EnsuredEdges(w.ctx, w.edges)]

(***************************************************************************)
(* useAudioEngine: capture.  src/src/App.tsx lines 109-116, 353-389.       *)
(***************************************************************************)
Tap(k) == Node("tap", k)

Proc(k) == Node("proc", k)

\* line 116
InitCapture ==
  [active |-> FALSE, left |-> 1, right |-> 2, processor |-> 0, tap |-> 0,
   sampleRate |-> DefaultRate]

NoPcm == [left |-> 0, right |-> 0, sampleRate |-> 0]

\* lines 366-368
CaptureEdges(k) == {Edge(Master, Tap(k)), Edge(Tap(k), Proc(k)), Edge(Proc(k), Destination)}

startCapture(w, st, rate) ==
  LET w1 == WithContext(w, st, rate)
      k == w1.nextNode
      a == Len(w1.arrays)
  IN [w1 EXCEPT
        !.capture = [active |-> TRUE, left |-> a + 1, right |-> a + 2,
                     processor |-> k, tap |-> k, sampleRate |-> w1.ctx.sampleRate],
        !.arrays = @ \o << <<>>, <<>> >>,
        !.nextNode = k + 1,
        !.edges = @ \cup CaptureEdges(k),
        !.calls.startCapture = @ + 1,
        !.delivered = <<>>]

\* lines 375-379: master.disconnect(tap), tap.disconnect()
TapDetached(e, tap) ==
  IF tap # 0
  THEN {x \in e : x # Edge(Master, Tap(tap)) /\ x.from # Tap(tap)}
  ELSE e

\* lines 380-383: processor.disconnect()
ProcDetached(e, processor) ==
  IF processor # 0 THEN {x \in e : x.from # Proc(processor)} ELSE e

\* line 385: cap.right.length ? cap.right : cap.left
ReturnedRight(cap, arr) == IF Len(arr[cap.right]) # 0 THEN cap.right ELSE cap.left

\* line 387: the capture that replaces the stopped one; a is the heap's size
FreshCapture(a, sampleRate) ==
  [active |-> FALSE, left |-> a + 1, right |-> a + 2, processor |-> 0, tap |-> 0,
   sampleRate |-> sampleRate]

stopCapture(w, st, rate) ==
  LET w1 == WithContext(w, st, rate)
      cap == w1.capture
      a == Len(w1.arrays)
  IN [w1 EXCEPT
        !.edges = ProcDetached(TapDetached(@, cap.tap), cap.processor),
        !.pcm = [left |-> cap.left, right |-> ReturnedRight(cap, w1.arrays),
                 sampleRate |-> cap.sampleRate],
        !.capture = FreshCapture(a, cap.sampleRate),
        !.arrays = @ \o << <<>>, <<>> >>,
        !.calls.stopCapture = @ + 1]

Chunk(n, len, ch) == [n |-> n, len |-> len, ch |-> ch]

\* onaudioprocess that pushes only the left channel
PushedLeftOnly(arr, cap, n, len) ==
  IF ~cap.active THEN arr
  ELSE [arr EXCEPT ![cap.left] = Append(@, Chunk(n, len, "L"))]

\* lines 361-364: the arrays after onaudioprocess was handed buffer n
Pushed(arr, cap, n, len) ==
  IF ~cap.active THEN arr
  ELSE LET withLeft == [arr EXCEPT ![cap.left] = Append(@, Chunk(n, len, "L"))]
       IN [withLeft EXCEPT ![cap.right] = Append(@, Chunk(n, len, "R"))]

\* proc.onaudioprocess of processor p; it reads captureRef.current when it runs
AudioProcess(p, len) ==
  /\ p \in 1..(nextNode - 1)
  /\ calls.audio < MaxChunks
  /\ arrays' = Pushed(arrays, capture, calls.audio + 1, len)
  /\ delivered' =
       IF capture.active THEN Append(delivered, [n |-> calls.audio + 1, len |-> len])
       ELSE delivered
  /\ calls' = [calls EXCEPT !.audio = @ + 1]
  /\ trail' = <<>>
  /\ lastCall' = Call("audio", "")
  /\ UNCHANGED <<ctx, edges, capture, nextNode, pcm, timers, nextTimer, urls, nextUrl,
                 rec, recordingActive, now, startedAt, recordLog, externalRef,
                 medias, noteVars, probe, enc, showRecorder, appVars>>

(***************************************************************************)
(* CassetteRecorder.  src/src/App.tsx lines 545-661.                       *)
(***************************************************************************)
RECURSIVE SumLens(_, _)
SumLens(chunks, i) == IF i > Len(chunks) THEN 0 ELSE chunks[i].len + SumLens(chunks, i + 1)

\* lines 574-579: the encodeBuffer calls for leftFlat.length = total, from i on
RECURSIVE BlockCalls(_, _)
BlockCalls(i, total) == IF i < total THEN 1 + BlockCalls(i + BlockSize, total) ELSE 0

NoBlob == [type |-> "", rate |-> 0, total |-> 0, blocks |-> 0]

encodePcmToMp3(p, arr) ==
  LET total == SumLens(arr[p.left], 1)
  IN [type |-> "audio/mpeg", rate |-> p.sampleRate, total |-> total,
      blocks |-> BlockCalls(0, total)]

(***************************************************************************)
(* encodePcmToMp3, statement by statement.  src/src/App.tsx lines 555-583. *)
(* A sample is named by its position in the flattened buffer; a chunk of   *)
(* pcm.left is given by its length.                                        *)
(***************************************************************************)
\* the chunk lengths encodePcmToMp3 is tried on
EncLens == {0, 1, BlockSize, BlockSize + 1, ProcBufferSize}

RECURSIVE SeqsUpTo(_, _)
\* the sequences over S of length at most n
SeqsUpTo(S, n) ==
  IF n = 0 THEN {<<>>}
  ELSE LET shorter == SeqsUpTo(S, n - 1)
       IN shorter \cup {Append(q, x) : q \in shorter, x \in S}

\* the buffers handed to encodePcmToMp3
EncInputs == SeqsUpTo(EncLens, MaxChunks)

RECURSIVE Reduce(_, _)
\* line 557: pcm.left.reduce((sum, buf) => sum + buf.length, 0), from chunk i on
Reduce(chunks, i) == IF i > Len(chunks) THEN 0 ELSE chunks[i] + Reduce(chunks, i + 1)

NoEnc ==
  [pc |-> "idle", chunks |-> <<>>, total |-> 0, idx |-> 0, offset |-> 0, flat |-> <<>>,
   i |-> 0, fed |-> <<>>, flushes |-> 0, type |-> ""]

\* lines 556-560: the call, up to the forEach
EncEntered(chunks) ==
  [NoEnc EXCEPT !.pc = "flatten", !.chunks = chunks, !.total = Reduce(chunks, 1)]

\* a subarray that is not cut at the end of the buffer
BlockEndUnclamped(i, total) == i + BlockSize

\* lines 575-576: subarray(i, i + blockSize) ends at the end of the buffer
BlockEnd(i, total) == Min2(i + BlockSize, total)

\* lines 561-570: one turn of the forEach copies chunk idx to
\* leftFlat[offset .. offset + buf.length)
EncFlatten ==
  /\ enc.pc = "flatten"
  /\ enc.idx < Len(enc.chunks)
  /\ LET buf == enc.chunks[enc.idx + 1]
     IN enc' = [enc EXCEPT !.flat = Append(@, [chunk |-> enc.idx, at |-> enc.offset,
                                               len |-> buf]),
                           !.offset = @ + buf,
                           !.idx = @ + 1]
  /\ UNCHANGED <<ctx, edges, noteVars, lastCall, recVars, appVars, probe, showRecorder>>

\* lines 571-574: the forEach is over; the encoder is made and i = 0
EncMakeEncoder ==
  /\ enc.pc = "flatten"
  /\ enc.idx = Len(enc.chunks)
  /\ enc' = [enc EXCEPT !.pc = "blocks", !.i = 0]
  /\ UNCHANGED <<ctx, edges, noteVars, lastCall, recVars, appVars, probe, showRecorder>>

\* lines 574-579: one turn of the for loop, i < leftFlat.length
EncBlock ==
  /\ enc.pc = "blocks"
  /\ enc.i < enc.total
  /\ enc' = [enc EXCEPT !.fed = Append(@, [lo |-> enc.i, hi |-> BlockEnd(enc.i, enc.total)]),
                        !.i = @ + BlockSize]
  /\ UNCHANGED <<ctx, edges, noteVars, lastCall, recVars, appVars, probe, showRecorder>>

\* lines 580-581: the loop is over; mp3enc.flush()
EncFlush ==
  /\ enc.pc = "blocks"
  /\ ~(enc.i < enc.total)
  /\ enc' = [enc EXCEPT !.pc = "return", !.flushes = @ + 1]
  /\ UNCHANGED <<ctx, edges, noteVars, lastCall, recVars, appVars, probe, showRecorder>>

\* line 582: return new Blob(mp3Data, { type: 'audio/mpeg' })
EncReturn ==
  /\ enc.pc = "return"
  /\ enc' = [enc EXCEPT !.pc = "done", !.type = "audio/mpeg"]
  /\ UNCHANGED <<ctx, edges, noteVars, lastCall, recVars, appVars, probe, showRecorder>>

\* lines 545-553
InitRec ==
  [recording |-> FALSE, recordedUrl |-> 0, recordedBlob |-> NoBlob, status |-> "Ready",
   remainingMs |-> MaxRecordMs, timerRef |-> 0, intervalRef |-> 0, tickRef |-> 0]

SetStatus(w, status) == [w EXCEPT !.rec.status = status, !.trail = Append(@, status)]

\* lines 586-587: clearInterval and clearTimeout draw on one pool of ids
TimersCleared(w) ==
  [w EXCEPT !.timers =
     {t \in @ : ~(\/ (w.rec.intervalRef # 0 /\ t.id = w.rec.intervalRef)
                  \/ (w.rec.timerRef # 0 /\ t.id = w.rec.timerRef))}]

\* handleStopRecording without its guard
StopReturnsNever(closureRecording) == FALSE

\* line 588: if (!recording) return; `recording` is the closure's
StopReturns(closureRecording) == ~closureRecording

\* a stop that publishes no take when nothing was captured
PublishUnlessEmpty(w) ==
  LET blob == encodePcmToMp3(w.pcm, w.arrays)
      u == w.nextUrl
      w1 == [w EXCEPT !.calls.encode = @ + 1, !.urls = @ \cup {u}, !.nextUrl = u + 1,
                      !.rec.recordedBlob = blob, !.rec.recordedUrl = u]
  IN IF blob.total = 0 THEN SetStatus(w, "Ready") ELSE SetStatus(w1, "Captured (mp3)")

\* a stop that publishes the URL and forgets the blob
PublishUrlOnly(w) ==
  LET u == w.nextUrl
      w1 == [w EXCEPT !.calls.encode = @ + 1, !.urls = @ \cup {u}, !.nextUrl = u + 1,
                      !.rec.recordedUrl = u]
  IN SetStatus(w1, "Captured (mp3)")

\* lines 593-597: encode, createObjectURL, publish the take
EncodeAndPublish(w) ==
  LET blob == encodePcmToMp3(w.pcm, w.arrays)
      u == w.nextUrl
      w1 == [w EXCEPT !.calls.encode = @ + 1, !.urls = @ \cup {u}, !.nextUrl = u + 1,
                      !.rec.recordedBlob = blob, !.rec.recordedUrl = u]
  IN SetStatus(w1, "Captured (mp3)")

handleStopRecording(w, closureRecording, st, rate) ==
  LET w1 == TimersCleared(w)
  IN IF StopReturns(closureRecording) THEN w1
     ELSE LET w2 == [w1 EXCEPT !.rec.recording = FALSE, !.recordingActive = FALSE]
              w3 == SetStatus(w2, "Encoding to mp3")
              w4 == stopCapture(w3, st, rate)
          IN EncodeAndPublish(w4)

\* startRecording that tests `recording` alone
StartReturnsRecordingOnly(closure) == closure.recording

\* line 601: if (recording || recordedUrl) return; both are the closure's
StartReturns(closure) == closure.recording \/ closure.recordedUrl # 0

\* lines 613-629: the two timers, armed with the handler of this render
ArmedTimers(i, closure) ==
  { [id |-> i, kind |-> "interval", at |-> now, closure |-> closure.recording],
    [id |-> i + 1, kind |-> "timeout", at |-> now + MaxRecordMs,
     closure |-> closure.recording] }

startRecording(w, closure, st, rate) ==
  IF StartReturns(closure) THEN w
  ELSE LET w1 == WithContext(w, st, rate)
           w2 == [w1 EXCEPT !.rec.recording = TRUE]
           w3 == SetStatus(w2, "Recording (max 30s)")
           w4 == [w3 EXCEPT !.rec.remainingMs = MaxRecordMs, !.recordLog = <<>>,
                            !.recordingActive = TRUE, !.rec.tickRef = now,
                            !.startedAt = now]
           w5 == startCapture(w4, st, rate)
           i == w5.nextTimer
       IN [w5 EXCEPT !.timers = @ \cup ArmedTimers(i, closure), !.nextTimer = i + 2,
                     !.rec.intervalRef = i, !.rec.timerRef = i + 1]

\* line 640: if (recording) stopRecording()
ClearStopsFirst(closure) == closure.recording

\* line 641: if (recordedUrl) URL.revokeObjectURL(recordedUrl)
Revoked(w, closure) ==
  IF closure.recordedUrl # 0 THEN [w EXCEPT !.urls = @ \ {closure.recordedUrl}] ELSE w

clearRecording(w, closure, st, rate) ==
  LET w1 == IF ClearStopsFirst(closure)
            THEN handleStopRecording(w, closure.recording, st, rate)
            ELSE w
      w2 == Revoked(w1, closure)
      w3 == [w2 EXCEPT !.rec.recordedUrl = 0, !.rec.recordedBlob = NoBlob]
      w4 == SetStatus(w3, "Ready")
  IN [w4 EXCEPT !.rec.remainingMs = MaxRecordMs]

\* what the handlers of the current render close over
Closure == [recording |-> rec.recording, recordedUrl |-> rec.recordedUrl]

\* The handlers are invoked in every state of the recorder.  The buttons that
\* call them (lines 694-697) are disabled where startRecording and
\* handleStopRecording would return at their guards; REW is enabled while
\* recording.
StartRecording(st, rate) ==
  /\ StartReturns(Closure) \/ calls.startCapture < MaxSessions
  /\ SetWorld(startRecording(World, Closure, st, rate))
  /\ lastCall' = Call("startRecording", "")
  /\ UNCHANGED <<now, noteVars, probe, enc, showRecorder, appVars>>

\* line 661
StopRecording(st, rate) ==
  /\ SetWorld(handleStopRecording(World, Closure.recording, st, rate))
  /\ lastCall' = Call("stopRecording", "")
  /\ UNCHANGED <<now, noteVars, probe, enc, showRecorder, appVars>>

ClearRecording(st, rate) ==
  /\ SetWorld(clearRecording(World, Closure, st, rate))
  /\ lastCall' = Call("clearRecording", "")
  /\ UNCHANGED <<now, noteVars, probe, enc, showRecorder, appVars>>

\* line 618
TickNext(prev, delta) == Max2(0, prev - delta)

\* lines 613-625: the interval's callback, t the timer
IntervalTick(t, st, rate) ==
  /\ t \in timers
  /\ t.kind = "interval"
  /\ now - t.at >= TickMs
  /\ LET delta == now - rec.tickRef
         w0 == [World EXCEPT !.rec.tickRef = now,
                             !.timers = (@ \ {t}) \cup {[t EXCEPT !.at = now]}]
         next == TickNext(rec.remainingMs, delta)
     IN IF next <= 0
        THEN /\ SetWorld([handleStopRecording(w0, t.closure, st, rate)
                            EXCEPT !.rec.remainingMs = 0])
             /\ lastCall' = Call("tickStop", "")
        ELSE /\ SetWorld([w0 EXCEPT !.rec.remainingMs = next])
             /\ lastCall' = Call("tick", "")
  /\ UNCHANGED <<now, noteVars, probe, enc, showRecorder, appVars>>

\* lines 626-629: the timeout's callback, t the timer
TimeoutFire(t, st, rate) ==
  /\ t \in timers
  /\ t.kind = "timeout"
  /\ now >= t.at
  /\ LET w0 == [World EXCEPT !.timers = @ \ {t}, !.rec.remainingMs = 0]
     IN SetWorld(handleStopRecording(w0, t.closure, st, rate))
  /\ lastCall' = Call("timeout", "")
  /\ UNCHANGED <<now, noteVars, probe, enc, showRecorder, appVars>>

\* a timer that is due runs before the clock is read again
TimerDue(t) ==
  IF t.kind = "interval" THEN now - t.at >= TickMs ELSE now >= t.at

TimeoutsAt == {t.at : t \in {x \in timers : x.kind = "timeout"}}

AdvanceTime ==
  /\ now < MaxNow
  /\ timers # {} \/ rec.recording
  /\ \A t \in timers : ~TimerDue(t)
  /\ LET cands == {now + ClockStep} \cup TimeoutsAt
     IN now' = CHOOSE m \in cands : \A o \in cands : m <= o
  /\ trail' = <<>>
  /\ lastCall' = Call("time", "")
  /\ UNCHANGED <<ctx, edges, capture, arrays, nextNode, pcm, timers, nextTimer, urls,
                 nextUrl, rec, recordingActive, calls, delivered, startedAt, recordLog,
                 externalRef, medias, noteVars, probe, enc, showRecorder, appVars>>

(***************************************************************************)
(* useAudioEngine: external media.  src/src/App.tsx lines 107, 391-409.    *)
(* An Audio element is "playing", "paused", "endQueued" (playback reached  *)
(* the end and the task that fires `ended` is queued) or "ended" (its      *)
(* onended ran).                                                           *)
(***************************************************************************)
\* Audio elements made in one run
MaxMedias == 3

Src(k) == Node("src", k)

\* line 395: externalRef.current.audio.pause()
PausedPrevious(m, ref) ==
  IF ref.some
  THEN [m EXCEPT ![ref.val].state = IF @ = "playing" THEN "paused" ELSE @]
  ELSE m

\* line 396: externalRef.current.source.disconnect()
DisconnectedPrevious(e, ref) ==
  IF ref.some THEN {x \in e : x.from # Src(ref.val)} ELSE e

\* lines 391-409; notify: an onEnded callback was handed over
playExternal(w, url, notify, st, rate) ==
  LET w1 == WithContext(w, st, rate)
      w2 == [w1 EXCEPT !.medias = PausedPrevious(@, w1.externalRef),
                       !.edges = DisconnectedPrevious(@, w1.externalRef),
                       !.externalRef = Null]
      k == Len(w2.medias) + 1
      audioEl == [url |-> url, state |-> "playing", notify |-> notify]
  IN [w2 EXCEPT !.medias = Append(@, audioEl),
                !.edges = @ \cup {Edge(Src(k), Master)},
                !.externalRef = Some(k)]

\* the URLs playExternal is handed
UrlInputs == {1, 2}

PlayExternal(url, notify, st, rate) ==
  /\ Len(medias) < MaxMedias
  /\ SetWorld(playExternal(World, url, notify, st, rate))
  /\ lastCall' = Call("playExternal", "")
  /\ UNCHANGED <<now, noteVars, probe, enc, showRecorder, appVars>>

\* line 633: if (!recordedUrl) return; `recordedUrl` is the closure's
PlayReturns(closure) == closure.recordedUrl = 0

\* lines 739-743: clear the pending timeouts, setActive(new Set()), and one
\* timeout per logged event.  The delays are the events' times, which do not
\* decrease along the log, so the timeouts fire in the order of the log.
playVisualLog ==
  /\ active' = {}
  /\ visualQueue' = recordLog

\* lines 632-637
PlayRecording(st, rate) ==
  /\ PlayReturns(Closure) \/ Len(medias) < MaxMedias
  /\ IF PlayReturns(Closure)
     THEN /\ SetWorld(World)
          /\ UNCHANGED <<active, visualQueue>>
     ELSE /\ SetWorld(playExternal(SetStatus(World, "Playing"), Closure.recordedUrl,
                                   TRUE, st, rate))
          /\ playVisualLog
  /\ lastCall' = Call("playRecording", "")
  /\ UNCHANGED <<now, noteVars, probe, enc, showRecorder, appMode>>

\* playback of element k reaches the end of its resource: the element stops
\* and the task that fires `ended` is queued
MediaReachesEnd(k) ==
  /\ k \in 1..Len(medias)
  /\ medias[k].state = "playing"
  /\ medias' = [medias EXCEPT ![k].state = "endQueued"]
  /\ trail' = <<>>
  /\ lastCall' = Call("reachesEnd", "")
  /\ UNCHANGED <<ctx, edges, capture, arrays, nextNode, pcm, timers, nextTimer, urls,
                 nextUrl, rec, recordingActive, now, calls, delivered, startedAt,
                 recordLog, externalRef, noteVars, probe, enc, showRecorder, appVars>>

\* lines 403-406: onended of element k; the callback of playRecording is
\* () => setStatus('Ready')
MediaEnded(k) ==
  /\ k \in 1..Len(medias)
  /\ medias[k].state = "endQueued"
  /\ LET w1 == [World EXCEPT !.externalRef = Null, !.medias[k].state = "ended"]
     IN SetWorld(IF medias[k].notify THEN SetStatus(w1, "Ready") ELSE w1)
  /\ lastCall' = Call("ended", "")
  /\ UNCHANGED <<now, noteVars, probe, enc, showRecorder, appVars>>

(***************************************************************************)
(* The music-theory functions, applied to every argument of a bounded set. *)
(***************************************************************************)
NoCall == Call("none", "")

\* a music-theory function's argument (a name or a pitch id), before it is applied
Probe(name, midi) ==
  [fn |-> "none", name |-> name, midi |-> midi, freq |-> FreqZero, pid |-> Null,
   q |-> 0, text |-> <<>>, chord |-> <<>>]

NoProbe == Probe(<<>>, 0)

\* the characters malformed names are made of: a letter of the pattern, a
\* letter outside it, the sharp, a digit, and a character of no class
NameChars == {"C", "H", "#", "4", "-"}

RECURSIVE NamesOfLen(_)
NamesOfLen(n) ==
  IF n = 0 THEN {<<>>}
  ELSE {Append(s, c) : s \in NamesOfLen(n - 1), c \in NameChars}

\* every string the pattern accepts
PatternNames ==
  {<<l, d>> : l \in Letters, d \in Digits} \cup {<<l, "#", d>> : l \in Letters, d \in Digits}

NameInputs == PatternNames \cup UNION {NamesOfLen(n) : n \in 0..MaxNameLen}

MidiInputs == (0 - MidiBelow)..MaxMidi

\* a chord of the name under study and, after it, a name that resolves
ProbeChord == << probe.name, <<"C", "4">> >>

\* a behaviour applies one operation to its argument: the functions are pure,
\* and the registry is played with the name as the engine's first call
Fresh == probe.fn = "none" /\ lastCall = NoCall

ApplyNoteToFrequency ==
  /\ Fresh
  /\ probe' = [Probe(probe.name, probe.midi) EXCEPT
                 !.fn = "noteToFrequency", !.freq = noteToFrequency(probe.name)]
  /\ UNCHANGED <<ctx, edges, noteVars, lastCall, recVars, appVars, enc, showRecorder>>

ApplyNoteNameToMidi ==
  /\ Fresh
  /\ probe' = [Probe(probe.name, probe.midi) EXCEPT
                 !.fn = "noteNameToMidi", !.pid = noteNameToMidi(probe.name)]
  /\ UNCHANGED <<ctx, edges, noteVars, lastCall, recVars, appVars, enc, showRecorder>>

ApplyMidiToNoteName ==
  /\ Fresh
  /\ probe' = [Probe(probe.name, probe.midi) EXCEPT
                 !.fn = "midiToNoteName", !.text = midiToNoteName(probe.midi)]
  /\ UNCHANGED <<ctx, edges, noteVars, lastCall, recVars, appVars, enc, showRecorder>>

ApplyQuantizeToScale ==
  /\ Fresh
  /\ probe' = [Probe(probe.name, probe.midi) EXCEPT
                 !.fn = "quantizeToScale",
                 !.q = quantizeToScale(probe.midi, CHORD_PRESET.keyRoot,
                                       CHORD_PRESET.scaleType)]
  /\ UNCHANGED <<ctx, edges, noteVars, lastCall, recVars, appVars, enc, showRecorder>>

ApplyBuildChord ==
  /\ Fresh
  /\ probe' = [Probe(probe.name, probe.midi) EXCEPT
                 !.fn = "buildChord", !.chord = buildChord(probe.name)]
  /\ UNCHANGED <<ctx, edges, noteVars, lastCall, recVars, appVars, enc, showRecorder>>

\* midiToNoteName(noteNameToMidi(name)), for a name that resolves
ApplyNameRoundTrip ==
  /\ Fresh
  /\ LET pid == noteNameToMidi(probe.name)
     IN probe' = [Probe(probe.name, probe.midi) EXCEPT
                    !.fn = "nameRoundTrip", !.pid = pid,
                    !.text = IF pid.some THEN midiToNoteName(pid.val) ELSE <<>>]
  /\ UNCHANGED <<ctx, edges, noteVars, lastCall, recVars, appVars, enc, showRecorder>>

\* noteNameToMidi(midiToNoteName(midi))
ApplyMidiRoundTrip ==
  /\ Fresh
  /\ LET text == midiToNoteName(probe.midi)
     IN probe' = [Probe(probe.name, probe.midi) EXCEPT
                    !.fn = "midiRoundTrip", !.text = text, !.pid = noteNameToMidi(text)]
  /\ UNCHANGED <<ctx, edges, noteVars, lastCall, recVars, appVars, enc, showRecorder>>

\* noteToFrequency(name) and noteNameToMidi(name) of one name
ApplyFrequencyAndMidi ==
  /\ Fresh
  /\ probe' = [Probe(probe.name, probe.midi) EXCEPT
                 !.fn = "frequencyAndMidi", !.freq = noteToFrequency(probe.name),
                 !.pid = noteNameToMidi(probe.name)]
  /\ UNCHANGED <<ctx, edges, noteVars, lastCall, recVars, appVars, enc, showRecorder>>

\* the registry is played once, on an engine that was at most unlocked before
PlayFresh == probe.fn = "none" /\ lastCall.op \in {"none", "ensureContext"}

\* playNote(name, mode, id)
ProbePlayNote(mode, id, st, rate) ==
  /\ PlayFresh
  /\ PlayNote(probe.name, mode, id, Null, st, rate)

\* playChord([name, C4], mode, id, strumMs)
ProbePlayChord(mode, id, strumMs, st, rate) ==
  /\ PlayFresh
  /\ PlayChord(ProbeChord, mode, id, strumMs, st, rate)

\* the unlock listener, before the registry is played
ProbeUnlock(st, rate) ==
  /\ PlayFresh
  /\ ctx.state = "none"
  /\ EnsureContext(st, rate)

(***************************************************************************)
(* App: the keys, the event log and its visual playback.                   *)
(* src/src/App.tsx lines 5-8, 705-783.                                     *)
(***************************************************************************)
\* voices created by the keys in one run
MaxKeyVoices == 4
\* events logged in one take
MaxLog == 2

NOTE_ORDER ==
  << <<"C", "4">>, <<"C", "#", "4">>, <<"D", "4">>, <<"D", "#", "4">>, <<"E", "4">>,
     <<"F", "4">>, <<"F", "#", "4">>, <<"G", "4">>, <<"G", "#", "4">>, <<"A", "4">>,
     <<"A", "#", "4">>, <<"B", "4">>, <<"C", "5">>, <<"C", "#", "5">>, <<"D", "5">>,
     <<"D", "#", "5">>, <<"E", "5">> >>

\* the notes as the strings that key `active`, the log and the registry
NoteStrings ==
  <<"C4", "C#4", "D4", "D#4", "E4", "F4", "F#4", "G4", "G#4", "A4", "A#4", "B4",
    "C5", "C#5", "D5", "D#5", "E5">>

\* line 759: const id = `${note}`
NoteString(note) == NoteStrings[CHOOSE i \in 1..Len(NOTE_ORDER) : NOTE_ORDER[i] = note]

KeyIds == {NoteStrings[i] : i \in 1..Len(NoteStrings)}

\* line 758: if (active.has(note)) return
PressReturns(id) == id \in active

\* lines 761-763, 779-781; the times are left out, the order is kept
Logged(type, id) ==
  IF recordingActive THEN Append(recordLog, [type |-> type, note |-> id]) ELSE recordLog

\* lines 757-770, called by a key's onPointerDown (line 463)
HandlePress(note, st, rate) ==
  LET id == NoteString(note)
  IN /\ \/ PressReturns(id)
        \/ (Len(voices) + 3 <= MaxKeyVoices /\ (recordingActive => Len(recordLog) < MaxLog))
     /\ IF PressReturns(id)
        THEN UNCHANGED <<ctx, edges, noteVars, active, recordLog>>
        ELSE /\ active' = active \cup {id}
             /\ recordLog' = Logged("down", id)
             /\ IF appMode = "chordz"
                THEN playChord(buildChord(note), "chordz", id, 0, st, rate)
                ELSE playNote(note, appMode, id, Null, st, rate)
     /\ lastCall' = Call("handlePress", id)
     /\ UNCHANGED <<capture, arrays, nextNode, pcm, timers, nextTimer, urls, nextUrl, rec,
                    recordingActive, now, trail, calls, delivered, startedAt, externalRef,
                    medias, probe, enc, showRecorder, appMode, visualQueue>>

\* lines 772-783, called by a key's onPointerUp (line 464)
HandleRelease(note) ==
  LET id == NoteString(note)
  IN /\ recordingActive => Len(recordLog) < MaxLog
     /\ active' = active \ {id}
     /\ recordLog' = Logged("up", id)
     /\ stopNote(id)
     /\ lastCall' = IF StopNoteThrows(id) THEN Threw("handleRelease", id)
                    ELSE Call("handleRelease", id)
     /\ UNCHANGED <<capture, arrays, nextNode, pcm, timers, nextTimer, urls, nextUrl, rec,
                    recordingActive, now, trail, calls, delivered, startedAt, externalRef,
                    medias, probe, enc, showRecorder, appMode, visualQueue>>

MODES == <<"piano", "kalimba", "chordz">>

\* lines 718-723
cycleMode(prev) ==
  LET idx == (CHOOSE i \in 1..Len(MODES) : MODES[i] = prev) - 1
  IN MODES[((idx + 1) % Len(MODES)) + 1]

CycleMode ==
  /\ appMode' = cycleMode(appMode)
  /\ lastCall' = Call("cycleMode", "")
  /\ UNCHANGED <<ctx, edges, noteVars, recVars, probe, enc, showRecorder, active, visualQueue>>

\* lines 745-752: the callback of the first pending timeout of playVisualLog
VisualTimeout ==
  /\ visualQueue # <<>>
  /\ LET evt == Head(visualQueue)
     IN active' = IF evt.type = "down" THEN active \cup {evt.note} ELSE active \ {evt.note}
  /\ visualQueue' = Tail(visualQueue)
  /\ lastCall' = Call("visualTimeout", "")
  /\ UNCHANGED <<ctx, edges, noteVars, recVars, probe, enc, showRecorder, appMode>>

(***************************************************************************)
(* App: the recorder panel.  src/src/App.tsx lines 711, 834-836, 858-865.  *)
(***************************************************************************)
\* the Show/Hide Recorder button: setShowRecorder(v => !v).  Hiding unmounts
\* CassetteRecorder, which has no cleanup: its timers, the capture and the
\* object URLs stay; showing mounts a new one, with the state of lines 545-553.
ToggleRecorder ==
  /\ showRecorder' = ~showRecorder
  /\ rec' = InitRec
  /\ trail' = <<>>
  /\ lastCall' = Call(IF showRecorder THEN "hideRecorder" ELSE "showRecorder", "")
  /\ UNCHANGED <<ctx, edges, capture, arrays, nextNode, pcm, timers, nextTimer, urls,
                 nextUrl, recordingActive, now, calls, delivered, startedAt, recordLog,
                 externalRef, medias, noteVars, probe, appVars, enc>>

(***************************************************************************)
(* Specifications.                                                         *)
(***************************************************************************)
InitEngine ==
  /\ ctx = NoCtx
  /\ edges = {}
  /\ currentTime = 0
  /\ voices = <<>>
  /\ activeNotes = [id \in Ids |-> NoEntry]
  /\ stopLog = <<>>
  /\ lastCall = NoCall

InitRecorder ==
  /\ capture = InitCapture
  /\ arrays = << <<>>, <<>> >>
  /\ nextNode = 1
  /\ pcm = NoPcm
  /\ timers = {}
  /\ nextTimer = 1
  /\ urls = {}
  /\ nextUrl = 1
  /\ rec = InitRec
  /\ recordingActive = FALSE
  /\ now = 0
  /\ trail = <<>>
  /\ calls = [startCapture |-> 0, stopCapture |-> 0, encode |-> 0, audio |-> 0]
  /\ delivered = <<>>
  /\ startedAt = 0
  /\ recordLog = <<>>

\* App and the engine's external media before the first event.  App draws its
\* mode at random (line 707); the specifications of the engine and of the
\* recorder are handed the mode as an argument and start App in the first.
\* They study the recorder once its panel is shown (App starts with it hidden,
\* line 711).
InitApp ==
  /\ appMode = "piano"
  /\ active = {}
  /\ visualQueue = <<>>
  /\ externalRef = Null
  /\ medias = <<>>
  /\ enc = NoEnc
  /\ showRecorder = TRUE

vars ==
  <<ctx, edges, currentTime, voices, activeNotes, stopLog, capture, arrays, nextNode,
    pcm, timers, nextTimer, urls, nextUrl, rec, recordingActive, now, trail, calls,
    delivered, startedAt, lastCall, probe, recordLog, externalRef, medias, appMode,
    active, visualQueue, enc, showRecorder>>

Init ==
  /\ InitEngine
  /\ InitRecorder
  /\ InitApp
  /\ probe = NoProbe

\* what a context that is constructed now may report: its state and its rate
NewCtx(rates) == IF ctx.state = "none" THEN CtxStartStates \X rates ELSE {<<"running", 0>>}

\* the note registry, played through its operations
Next ==
  \/ \E note \in NoteInputs, mode \in Modes, id \in Ids, startTime \in StartInputs,
        c \in NewCtx({DefaultRate}) :
       PlayNote(note, mode, id, startTime, c[1], c[2])
  \/ \E notes \in ChordInputs, mode \in Modes, id \in Ids, strumMs \in StrumInputs,
        c \in NewCtx({DefaultRate}) :
       PlayChord(notes, mode, id, strumMs, c[1], c[2])
  \/ \E id \in Ids : StopNote(id)
  \/ \E c \in NewCtx({DefaultRate}) : EnsureContext(c[1], c[2])

Spec == Init /\ [][Next]_vars

\* one mounted recorder, its timers and the tap callback
NextRec ==
  \/ \E c \in NewCtx(SampleRates) : StartRecording(c[1], c[2])
  \/ \E c \in NewCtx(SampleRates) : StopRecording(c[1], c[2])
  \/ \E c \in NewCtx(SampleRates) : ClearRecording(c[1], c[2])
  \/ \E t \in timers, c \in NewCtx(SampleRates) : IntervalTick(t, c[1], c[2])
  \/ \E t \in timers, c \in NewCtx(SampleRates) : TimeoutFire(t, c[1], c[2])
  \/ \E p \in 1..MaxSessions, len \in ChunkLens : AudioProcess(p, len)
  \/ AdvanceTime

SpecRec == Init /\ [][NextRec]_vars

\* the argument under study is a name (with pitch id 0) or a pitch id (with the
\* empty name)
InitTheory ==
  /\ InitEngine
  /\ InitRecorder
  /\ InitApp
  /\ probe \in {Probe(n, 0) : n \in NameInputs} \cup {Probe(<<>>, m) : m \in MidiInputs}

\* the functions applied to the argument, and the registry played with it
NextTheory ==
  \/ ApplyNoteToFrequency
  \/ ApplyNoteNameToMidi
  \/ ApplyMidiToNoteName
  \/ ApplyQuantizeToScale
  \/ ApplyBuildChord
  \/ ApplyNameRoundTrip
  \/ ApplyMidiRoundTrip
  \/ ApplyFrequencyAndMidi
  \/ \E mode \in Modes, id \in Ids, c \in NewCtx({DefaultRate}) :
       ProbePlayNote(mode, id, c[1], c[2])
  \/ \E mode \in Modes, id \in Ids, strumMs \in StrumInputs, c \in NewCtx({DefaultRate}) :
       ProbePlayChord(mode, id, strumMs, c[1], c[2])
  \/ \E c \in NewCtx({DefaultRate}) : ProbeUnlock(c[1], c[2])
  \/ AdvanceClock

SpecTheory == InitTheory /\ [][NextTheory]_vars

\* App with its recorder shown: one key (the one under study), the mode
\* button, the transport buttons and the timeouts of the visual playback.
\* Date.now() stands still: the events of a run fall within one tick of the
\* recorder.
InitKeys ==
  /\ ctx = NoCtx
  /\ edges = {}
  /\ currentTime = 0
  /\ voices = <<>>
  /\ activeNotes = [id \in KeyIds |-> NoEntry]
  /\ stopLog = <<>>
  /\ lastCall = NoCall
  /\ InitRecorder
  /\ appMode \in Modes
  /\ active = {}
  /\ visualQueue = <<>>
  /\ externalRef = Null
  /\ medias = <<>>
  /\ enc = NoEnc
  /\ showRecorder = TRUE
  /\ probe \in {Probe(NOTE_ORDER[i], 0) : i \in 1..Len(NOTE_ORDER)}

NextKeys ==
  \/ \E c \in NewCtx({DefaultRate}) : HandlePress(probe.name, c[1], c[2])
  \/ HandleRelease(probe.name)
  \/ CycleMode
  \/ VisualTimeout
  \/ \E c \in NewCtx({DefaultRate}) : StartRecording(c[1], c[2])
  \/ \E c \in NewCtx({DefaultRate}) : StopRecording(c[1], c[2])
  \/ \E c \in NewCtx({DefaultRate}) : PlayRecording(c[1], c[2])

SpecKeys == InitKeys /\ [][NextKeys]_vars

\* the engine's external media: playExternal and the events of its elements
NextExt ==
  \/ \E url \in UrlInputs, notify \in BOOLEAN, c \in NewCtx({DefaultRate}) :
       PlayExternal(url, notify, c[1], c[2])
  \/ \E k \in 1..Len(medias) : MediaReachesEnd(k)
  \/ \E k \in 1..Len(medias) : MediaEnded(k)

SpecExt == Init /\ [][NextExt]_vars

\* every operation that invokes ensureContext: the unlock and keydown
\* listeners, playNote, playChord, startRecording and playExternal
NextCtx ==
  \/ \E c \in NewCtx({DefaultRate}) : EnsureContext(c[1], c[2])
  \/ \E id \in Ids, c \in NewCtx({DefaultRate}) :
       PlayNote(<<"C", "4">>, "piano", id, Null, c[1], c[2])
  \/ \E id \in Ids, c \in NewCtx({DefaultRate}) :
       PlayChord(<< <<"C", "4">>, <<"E", "4">> >>, "chordz", id, 0, c[1], c[2])
  \/ \E id \in Ids : StopNote(id)
  \/ \E c \in NewCtx({DefaultRate}) : StartRecording(c[1], c[2])
  \/ \E c \in NewCtx({DefaultRate}) : StopRecording(c[1], c[2])
  \/ \E c \in NewCtx({DefaultRate}) : PlayExternal(1, FALSE, c[1], c[2])

SpecCtx == Init /\ [][NextCtx]_vars

\* the recorder with its panel hidden and shown.  Date.now() stands still;
\* the timers of a recorder, mounted or not, only clear themselves (their
\* handler returns at line 588) and are left out.
NextPanel ==
  \/ ToggleRecorder
  \/ \E c \in NewCtx({DefaultRate}) : showRecorder /\ StartRecording(c[1], c[2])
  \/ \E c \in NewCtx({DefaultRate}) : showRecorder /\ StopRecording(c[1], c[2])
  \/ \E c \in NewCtx({DefaultRate}) : showRecorder /\ ClearRecording(c[1], c[2])
  \/ \E p \in 1..MaxSessions, len \in ChunkLens : AudioProcess(p, len)

SpecPanel == Init /\ [][NextPanel]_vars

\* one call of encodePcmToMp3 on each buffer of EncInputs
InitEnc ==
  /\ InitEngine
  /\ InitRecorder
  /\ appMode = "piano"
  /\ active = {}
  /\ visualQueue = <<>>
  /\ externalRef = Null
  /\ medias = <<>>
  /\ showRecorder = TRUE
  /\ probe = NoProbe
  /\ enc \in {EncEntered(chunks) : chunks \in EncInputs}

NextEnc ==
  \/ EncFlatten
  \/ EncMakeEncoder
  \/ EncBlock
  \/ EncFlush
  \/ EncReturn

\* the call is not interrupted: JavaScript runs it to its return
SpecEnc == InitEnc /\ [][NextEnc]_vars /\ WF_vars(NextEnc)

(***************************************************************************)
(* The note registry: claims.                                              *)
(***************************************************************************)
Registered(id) == activeNotes[id].kind # "none"

\* C1: a playNote or playChord on an identifier that already has a registry
\* entry creates no voice and leaves the registry unchanged; a playNote that
\* registers an identifier registers exactly one voice, so two playNotes of
\* one identifier with no stop between them leave one voice for it.
C1_RetriggerIsNoOp ==
  [][\A id \in Ids :
       /\ (/\ lastCall'.op \in {"playNote", "playChord"}
           /\ lastCall'.id = id
           /\ Registered(id))
          => (voices' = voices /\ activeNotes' = activeNotes /\ stopLog' = stopLog)
       /\ (/\ lastCall'.op = "playNote"
           /\ lastCall'.id = id
           /\ activeNotes'[id].kind # "none")
          => (\/ activeNotes'[id] = activeNotes[id]
              \/ (/\ activeNotes'[id].kind = "single"
                  /\ activeNotes'[id].vs = <<Len(voices) + 1>>
                  /\ Len(voices') = Len(voices) + 1))]_vars

\* playNote was invoked on an identifier that a chord had registered
C1_Witness ==
  \E id \in Ids :
    /\ lastCall = Call("playNote", id)
    /\ activeNotes[id].kind = "list"
    /\ Len(voices) = Len(activeNotes[id].vs)

\* C7: stopNote(id) on an identifier with an entry invokes stop once on every
\* voice of the entry, in the order of the list, and removes the entry, after
\* which a play of the identifier is not turned away.
C7_StopStopsEveryVoice ==
  [][\A id \in Ids :
       (lastCall'.op = "stopNote" /\ lastCall'.id = id /\ Registered(id))
       => (/\ stopLog' = stopLog \o activeNotes[id].vs
           /\ \A i, j \in 1..Len(activeNotes[id].vs) :
                i # j => activeNotes[id].vs[i] # activeNotes[id].vs[j]
           /\ \A i \in 1..Len(activeNotes[id].vs) :
                \A k \in 1..Len(stopLog) : stopLog[k] # activeNotes[id].vs[i]
           /\ activeNotes'[id] = NoEntry
           /\ \A other \in Ids \ {id} : activeNotes'[other] = activeNotes[other])]_vars

\* a chord of two voices (they start a strum apart) was stopped by one stopNote
C7_Witness ==
  /\ lastCall.op = "stopNote"
  /\ stopLog = <<1, 2>>
  /\ Len(voices) = 2
  /\ voices[1].start < voices[2].start
  /\ activeNotes[lastCall.id] = NoEntry

\* C8: stopNote(id) on an identifier with no entry raises nothing, invokes no
\* stop and changes no entry.
C8_StopUnknownIsNoOp ==
  [][\A id \in Ids :
       (lastCall'.op = "stopNote" /\ lastCall'.id = id /\ ~Registered(id))
       => (/\ ~lastCall'.threw
           /\ stopLog' = stopLog
           /\ activeNotes' = activeNotes
           /\ voices' = voices
           /\ ctx' = ctx)]_vars

\* stopNote was invoked on an identifier that holds nothing, while the other
\* identifier sounds
C8_Witness ==
  \E id \in Ids :
    /\ lastCall = Call("stopNote", id)
    /\ ~Registered(id)
    /\ Len(stopLog) = Len(voices) - 1
    /\ \E other \in Ids \ {id} : Registered(other)

(***************************************************************************)
(* The recorder: claims.                                                   *)
(***************************************************************************)
\* the recorder's state, read off what it holds
RecState ==
  IF rec.recording THEN "Recording"
  ELSE IF rec.recordedUrl # 0 THEN "Captured" ELSE "Idle"

StopOps == {"stopRecording", "tickStop", "timeout"}

\* C2: a recording that nobody stops is no longer Recording once more than
\* 30,000 ms have passed since it started.
C2_AutoStop == rec.recording => now - startedAt <= MaxRecordMs

\* C3: the stop routine invoked when the recorder is not Recording calls
\* neither stopCapture nor the encoder and changes neither the take nor the
\* recorder's state; stopCapture and the encoder run once per step at most,
\* only on a step that leaves Recording, and never more often than recordings
\* were started.
C3_StopIsIdempotent ==
  [][/\ (lastCall'.op \in StopOps /\ ~rec.recording)
        => (/\ calls'.stopCapture = calls.stopCapture
            /\ calls'.encode = calls.encode
            /\ rec'.recording = rec.recording
            /\ rec'.recordedUrl = rec.recordedUrl
            /\ rec'.recordedBlob = rec.recordedBlob
            /\ rec'.status = rec.status
            /\ trail' = <<>>
            /\ UNCHANGED <<pcm, capture, arrays, urls, edges, ctx>>)
     /\ calls'.stopCapture # calls.stopCapture
        => (/\ calls'.stopCapture = calls.stopCapture + 1
            /\ calls'.encode = calls.encode + 1
            /\ rec.recording
            /\ ~rec'.recording)
     /\ calls'.encode - calls.encode = calls'.stopCapture - calls.stopCapture
     /\ calls'.stopCapture <= calls'.startCapture]_vars

\* stopRecording was invoked again on a recorder that holds the take of its
\* one stop
C3_Witness ==
  /\ lastCall = Call("stopRecording", "")
  /\ trail = <<>>
  /\ RecState = "Captured"
  /\ calls.stopCapture = 1
  /\ calls.encode = 1

\* C4: startRecording on a recorder that is Recording or holds a take starts
\* no capture, arms no timer and changes nothing of the buffer, the take or
\* the recorder; a recording begins only by startRecording on a recorder that
\* holds no take, and a take is given up only by clearRecording.
C4_StartRejected ==
  [][/\ (lastCall'.op = "startRecording" /\ RecState # "Idle")
        => (/\ trail' = <<>>
            /\ UNCHANGED <<rec, capture, arrays, delivered, timers, nextTimer, pcm, calls,
                           edges, urls, nextUrl, nextNode, ctx, recordingActive>>)
     /\ (~rec.recording /\ rec'.recording)
        => (lastCall'.op = "startRecording" /\ RecState = "Idle")
     /\ (rec.recordedUrl # 0 /\ rec'.recordedUrl # rec.recordedUrl)
        => lastCall'.op = "clearRecording"]_vars

\* startRecording was invoked on a recorder that holds a take
C4_Witness ==
  /\ lastCall = Call("startRecording", "")
  /\ RecState = "Captured"
  /\ calls.startCapture = 1
  /\ timers = {}
  /\ trail = <<>>

\* C5: every step that leaves Recording sets the status to Encoding and then
\* to Captured, running the encoder once, and ends in Captured unless the step
\* is a clear, which goes on to Idle from there; Idle is entered from no other
\* state than by clearRecording.
C5_ExitThroughEncoding ==
  [][/\ (rec.recording /\ ~rec'.recording)
        => (/\ Len(trail') >= 2
            /\ trail'[1] = "Encoding to mp3"
            /\ trail'[2] = "Captured (mp3)"
            /\ calls'.encode = calls.encode + 1
            /\ \/ RecState' = "Captured" /\ Len(trail') = 2
               \/ /\ lastCall'.op = "clearRecording"
                  /\ trail' = <<"Encoding to mp3", "Captured (mp3)", "Ready">>)
     /\ (RecState # "Idle" /\ RecState' = "Idle")
        => (/\ lastCall'.op = "clearRecording"
            /\ \/ RecState = "Captured"
               \/ trail' = <<"Encoding to mp3", "Captured (mp3)", "Ready">>)]_vars

\* a recording that captured nothing was stopped
C5_Witness ==
  /\ lastCall = Call("stopRecording", "")
  /\ trail = <<"Encoding to mp3", "Captured (mp3)">>
  /\ RecState = "Captured"
  /\ rec.recordedBlob.total = 0
  /\ rec.recordedBlob.type = "audio/mpeg"

\* the chunks of channel ch for the buffers delivered
ChunksOf(d, ch) == [i \in 1..Len(d) |-> Chunk(d[i].n, d[i].len, ch)]

RECURSIVE SumDelivered(_, _)
SumDelivered(d, i) == IF i > Len(d) THEN 0 ELSE d[i].len + SumDelivered(d, i + 1)

\* C6: while a capture is active its left and right sequences hold one chunk
\* for every buffer delivered, in the order of delivery; the buffer stopCapture
\* returns holds those chunks, its sample count is the sum of the delivered
\* lengths, and no later step changes the returned buffer.
C6_CaptureKeepsEveryChunk ==
  [][/\ capture'.active
        => (/\ arrays'[capture'.left] = ChunksOf(delivered', "L")
            /\ arrays'[capture'.right] = ChunksOf(delivered', "R"))
     /\ calls'.stopCapture # calls.stopCapture
        => (/\ arrays'[pcm'.left] = ChunksOf(delivered, "L")
            /\ arrays'[pcm'.right] = ChunksOf(delivered, "R")
            /\ SumLens(arrays'[pcm'.left], 1) = SumDelivered(delivered, 1)
            /\ SumLens(arrays'[pcm'.right], 1) = SumDelivered(delivered, 1)
            /\ ~capture'.active)
     /\ (pcm.left # 0 /\ pcm' = pcm)
        => (/\ arrays'[pcm.left] = arrays[pcm.left]
            /\ arrays'[pcm.right] = arrays[pcm.right])]_vars

\* two buffers of different lengths were captured and returned, and nothing
\* more was delivered
C6_Witness ==
  /\ pcm.left # 0
  /\ arrays[pcm.left] = <<Chunk(1, ProcBufferSize \div 4, "L"), Chunk(2, ProcBufferSize, "L")>>
  /\ arrays[pcm.right] = <<Chunk(1, ProcBufferSize \div 4, "R"), Chunk(2, ProcBufferSize, "R")>>
  /\ rec.recordedBlob.total = ProcBufferSize + ProcBufferSize \div 4

(***************************************************************************)
(* The music-theory functions: claims.                                     *)
(***************************************************************************)
\* a letter A-G, an optional sharp, one octave digit, and nothing else
WellFormed(name) ==
  /\ Len(name) \in {2, 3}
  /\ name[1] \in {"A", "B", "C", "D", "E", "F", "G"}
  /\ Len(name) = 3 => name[2] = "#"
  /\ name[Len(name)] \in {"0", "1", "2", "3", "4", "5", "6", "7", "8", "9"}

\* C9: noteToFrequency returns 0 exactly for the names that are not
\* well-formed, and noteNameToMidi returns null exactly for them; playNote
\* with a name that is not well-formed raises nothing, creates no voice and
\* registers nothing; playChord makes no voice for such a name and makes the
\* voices of the chord's other names.
C9_MalformedNamesResolveToSentinel ==
  [][/\ probe'.fn = "noteToFrequency"
        => (FreqFalsy(probe'.freq) <=> ~WellFormed(probe'.name))
     /\ probe'.fn = "noteNameToMidi"
        => (probe'.pid = Null <=> ~WellFormed(probe'.name))
     /\ (lastCall'.op = "playNote" /\ ~WellFormed(probe.name))
        => (/\ ~lastCall'.threw
            /\ voices' = voices
            /\ activeNotes' = activeNotes)
     /\ (lastCall'.op = "playChord" /\ lastCall.op # "playChord" /\ ~WellFormed(probe.name))
        => (/\ ~lastCall'.threw
            /\ Len(voices') = 1
            /\ voices'[1].freq.twelfths = -9
            /\ activeNotes'[lastCall'.id] = [kind |-> "list", vs |-> <<1>>])
     /\ (lastCall'.op = "playChord" /\ lastCall.op # "playChord" /\ WellFormed(probe.name))
        => Len(voices') = 2]_vars

\* playChord was handed C4 and a name with two octave digits, and made the
\* one voice of C4
C9_Witness ==
  /\ probe.name = <<"C", "4", "4">>
  /\ probe.fn = "none"
  /\ lastCall.op = "playChord"
  /\ Len(voices) = 1
  /\ activeNotes[lastCall.id].kind = "list"

\* the offsets of the major scale from its root, and the pitch class of C
MajorOffsets == {0, 2, 4, 5, 7, 9, 11}

PitchClassFromC(m) == m % 12

\* C10: what quantizeToScale returns for the key of C major has a pitch class
\* among the scale's offsets from C, and a pitch id whose pitch class is
\* among them is returned unchanged.
C10_QuantizeLandsInScale ==
  probe.fn = "quantizeToScale"
  => (/\ PitchClassFromC(probe.q) \in MajorOffsets
      /\ PitchClassFromC(probe.midi) \in MajorOffsets => probe.q = probe.midi)

\* a pitch id below zero and outside the scale was quantized, to the C below it
C10_Witness ==
  /\ probe.fn = "quantizeToScale"
  /\ probe.midi = -23
  /\ probe.q = -24

\* what a name says: the class of its letter and sharp, the value of a digit,
\* the pitch id of a well-formed name
LetterClass == [C |-> 0, D |-> 2, E |-> 4, F |-> 5, G |-> 7, A |-> 9, B |-> 11]

NameClass(name) ==
  (LetterClass[name[1]] + (IF Len(name) >= 2 /\ name[2] = "#" THEN 1 ELSE 0)) % 12

DigitValue ==
  [d \in {"0", "1", "2", "3", "4", "5", "6", "7", "8", "9"} |->
     CASE d = "0" -> 0 [] d = "1" -> 1 [] d = "2" -> 2 [] d = "3" -> 3 [] d = "4" -> 4
       [] d = "5" -> 5 [] d = "6" -> 6 [] d = "7" -> 7 [] d = "8" -> 8 [] d = "9" -> 9]

NamePitchId(name) ==
  12 * (DigitValue[name[Len(name)]] + 1) + LetterClass[name[1]]
    + (IF Len(name) = 3 THEN 1 ELSE 0)

\* the scale's offsets in the order they are declared
DeclaredOrder == <<0, 2, 4, 5, 7, 9, 11>>

\* the distance of two classes on the circle of twelve
CircDist(a, b) == IF (a - b) % 12 <= (b - a) % 12 THEN (a - b) % 12 ELSE (b - a) % 12

\* the in-scale classes nearest to class p
NearestClasses(p) ==
  {c \in MajorOffsets : \A o \in MajorOffsets : CircDist(p, c) <= CircDist(p, o)}

IsTie(p) == Cardinality(NearestClasses(p)) = 2

\* the degree (1..7) of the nearest class that is declared first
EarlierDegree(p) ==
  CHOOSE i \in 1..7 :
    /\ DeclaredOrder[i] \in NearestClasses(p)
    /\ \A j \in 1..7 : DeclaredOrder[j] \in NearestClasses(p) => i <= j

\* the triad shape of a degree
ShapeOfDegree(k) ==
  IF k \in {1, 4, 5} THEN <<0, 4, 7>>
  ELSE IF k \in {2, 3, 6} THEN <<0, 3, 7>> ELSE <<0, 3, 6>>

\* C11: for a pitch whose class is equally far from two in-scale classes,
\* quantizeToScale returns the occurrence, within 6 semitones of the input, of
\* the class declared first, and buildChord builds its triad on that class with
\* the shape of that class's degree.
C11_TieGoesToEarlierClass ==
  /\ (probe.fn = "quantizeToScale" /\ IsTie(PitchClassFromC(probe.midi)))
     => (/\ PitchClassFromC(probe.q)
              = DeclaredOrder[EarlierDegree(PitchClassFromC(probe.midi))]
         /\ Abs(probe.q - probe.midi) <= 6)
  /\ (/\ probe.fn = "buildChord"
      /\ WellFormed(probe.name)
      /\ IsTie(PitchClassFromC(NamePitchId(probe.name))))
     => LET k == EarlierDegree(PitchClassFromC(NamePitchId(probe.name)))
        IN /\ Len(probe.chord) = 3
           /\ \A i \in 1..3 :
                NameClass(probe.chord[i]) = (DeclaredOrder[k] + ShapeOfDegree(k)[i]) % 12

\* the chord of F#4, between F and G, was built on F
C11_Witness ==
  /\ probe.fn = "buildChord"
  /\ probe.name = <<"F", "#", "4">>
  /\ probe.chord = << <<"F", "4">>, <<"A", "4">>, <<"C", "5">> >>

\* C12: for every well-formed name, midiToNoteName(noteNameToMidi(name)) is
\* the name.
C12_NameRoundTrip ==
  (probe.fn = "nameRoundTrip" /\ WellFormed(probe.name)) => probe.text = probe.name

\* the names of the pitch ids: sharps only, no flats, no E# or B#
SharpSpelled(name) ==
  /\ Len(name) >= 2
  /\ name[1] \in {"A", "B", "C", "D", "E", "F", "G"}
  /\ name[2] = "#" => name[1] \in {"C", "D", "F", "G", "A"}
  /\ \A i \in 2..Len(name) :
       name[i] \in {"#", "0", "1", "2", "3", "4", "5", "6", "7", "8", "9"}

\* C13: for every pitch id x from 12 to 131, midiToNoteName(x) is a
\* sharp-spelled name with one octave digit and noteNameToMidi of it is x.
C13_PitchIdRoundTrip ==
  (probe.fn = "midiRoundTrip" /\ probe.midi >= 12 /\ probe.midi <= 131)
  => (/\ probe.pid = Some(probe.midi)
      /\ WellFormed(probe.text)
      /\ SharpSpelled(probe.text))

\* pitch id 131, the highest with a one-digit octave, went to B9 and back
C13_Witness ==
  /\ probe.fn = "midiRoundTrip"
  /\ probe.midi = 131
  /\ probe.text = <<"B", "9">>
  /\ probe.pid = Some(131)

\* the degree (1..7) of an in-scale class
DegreeOfClass(c) == CHOOSE i \in 1..7 : DeclaredOrder[i] = c

\* C14: for a well-formed name buildChord returns three names, and the pitch
\* ids of the three are r + o for the offsets o of the triad shape of the
\* degree of r's class, r being quantizeToScale of the name's pitch id; for a
\* name that is not well-formed it returns the name alone.
C14_TriadOnQuantizedRoot ==
  probe.fn = "buildChord"
  => IF WellFormed(probe.name)
     THEN LET r == quantizeToScale(noteNameToMidi(probe.name).val, "C", "major")
              shape == ShapeOfDegree(DegreeOfClass(PitchClassFromC(r)))
          IN /\ Len(probe.chord) = 3
             /\ \A i \in 1..3 : noteNameToMidi(probe.chord[i]) = Some(r + shape[i])
     ELSE probe.chord = <<probe.name>>

\* C15: every name of the chord buildChord returns for a well-formed name has
\* a pitch class of the C-major scale.
C15_ChordStaysInScale ==
  (probe.fn = "buildChord" /\ WellFormed(probe.name))
  => \A i \in 1..Len(probe.chord) : NameClass(probe.chord[i]) \in MajorOffsets

\* the chord of B4, the diminished triad of the seventh degree
C15_Witness ==
  /\ probe.fn = "buildChord"
  /\ probe.name = <<"B", "4">>
  /\ probe.chord = << <<"B", "4">>, <<"D", "5">>, <<"F", "5">> >>

(***************************************************************************)
(* The note registry and the recorder: further claims.                     *)
(***************************************************************************)
\* C18: every voice is built at its note's frequency times 0.5 when the mode
\* is piano or chordz and times 1 when it is kalimba, whether playNote or
\* playChord built it.
C18_FactorDependsOnModeOnly ==
  \A i \in 1..Len(voices) :
    voices[i].freq.tenths = (IF voices[i].mode \in {"piano", "chordz"} THEN 5 ELSE 10)

\* C19: after clearRecording no object URL that was created for a take is
\* left unrevoked, and the recorder holds neither URL nor blob.
C19_ClearReleasesEveryUrl ==
  lastCall.op = "clearRecording"
  => (/\ urls = {}
      /\ rec.recordedUrl = 0
      /\ rec.recordedBlob = NoBlob)

\* the positions (from 0) of the well-formed names of a list, in order
RECURSIVE ResolvablePositions(_, _)
ResolvablePositions(names, i) ==
  IF i > Len(names) THEN <<>>
  ELSE (IF WellFormed(names[i]) THEN <<i - 1>> ELSE <<>>)
         \o ResolvablePositions(names, i + 1)

SoundingMedias ==
  {k \in 1..Len(medias) : medias[k].state = "playing" /\ Edge(Src(k), Master) \in edges}

\* C20: over every sequence of playExternal calls and ended events, at most
\* one external media source is connected to the master bus and playing.
C20_AtMostOneExternalSource == Cardinality(SoundingMedias) <= 1

\* C16: a press of a key of the keyboard whose identifier is not registered,
\* in chordz mode, registers exactly three new voices under that identifier,
\* all with the same scheduled start time.
C16_ChordzPressRegistersThreeVoices ==
  [][(lastCall'.op = "handlePress" /\ appMode = "chordz" /\ ~Registered(lastCall'.id))
     => LET e == activeNotes'[lastCall'.id]
            n == Len(voices)
        IN /\ Len(voices') = n + 3
           /\ e = [kind |-> "list", vs |-> <<n + 1, n + 2, n + 3>>]
           /\ \A i \in 1..3 : voices'[n + i].start = voices'[n + 1].start]_vars

\* the step invokes ensureContext: the listeners, playNote, playChord and
\* playExternal always do, startRecording does past its guard (line 601)
EnsuringStep ==
  \/ lastCall'.op \in {"ensureContext", "playNote", "playChord", "playExternal"}
  \/ lastCall'.op = "startRecording" /\ ~rec.recording /\ rec.recordedUrl = 0

\* C21: at most one context with its master bus, analyser, reverb and
\* recording tap is ever constructed and wired; once constructed it is never
\* replaced and its wiring stays; a call that finds it suspended resumes it
\* and constructs nothing.
C21_EnsureContextIsIdempotent ==
  [][/\ ctx'.made <= 1
     /\ ctx'.state # "none" => Wiring \subseteq edges'
     /\ ctx.state # "none"
        => /\ ctx'.made = ctx.made
           /\ ctx'.sampleRate = ctx.sampleRate
           /\ ctx'.state # "none"
     /\ (ctx.state = "suspended" /\ EnsuringStep) => ctx'.state = "running"]_vars

\* one context after the registry, the recorder and the external media
\* have each invoked ensureContext
C21_Witness ==
  /\ ctx = [made |-> 1, state |-> "running", sampleRate |-> DefaultRate]
  /\ lastCall.op = "playExternal"
  /\ Len(medias) = 2
  /\ voices # <<>>
  /\ calls.startCapture = 1

RECURSIVE LengthOf(_, _)
\* the number of samples of the chunks from chunk k on
LengthOf(chunks, k) == IF k > Len(chunks) THEN 0 ELSE chunks[k] + LengthOf(chunks, k + 1)

\* the number of blocks of 1152 that cover n samples
CeilBlocks(n) == (n + 1151) \div 1152

\* the encoder was fed every sample once and in order, in blocks of 1152
FedOnceInOrder ==
  LET n == LengthOf(enc.chunks, 1)
  IN /\ Len(enc.flat) = Len(enc.chunks)
     /\ \A k \in 1..Len(enc.flat) :
          /\ enc.flat[k].chunk = k - 1
          /\ enc.flat[k].len = enc.chunks[k]
          /\ enc.flat[k].at = n - LengthOf(enc.chunks, k)
     /\ Len(enc.fed) = CeilBlocks(n)
     /\ \A b \in 1..Len(enc.fed) :
          /\ enc.fed[b].lo = (b - 1) * 1152
          /\ enc.fed[b].hi = (IF b < Len(enc.fed) THEN b * 1152 ELSE n)
          /\ enc.fed[b].hi > enc.fed[b].lo
     /\ enc.flushes = 1
     /\ enc.type = "audio/mpeg"

C23_FrequencyFollowsPitchId ==
  (probe.fn = "frequencyAndMidi" /\ WellFormed(probe.name))
  => (/\ probe.pid.some
      /\ probe.freq = [hz |-> 440, twelfths |-> probe.pid.val - 69, tenths |-> 10]
      /\ probe.name = <<"A", "4">> => probe.freq.twelfths = 0)

\* B#4 has the pitch id and the exponent of C5
C23_Witness ==
  /\ probe.fn = "frequencyAndMidi"
  /\ probe.name = <<"B", "#", "4">>
  /\ probe.pid = Some(72)
  /\ probe.freq.twelfths = 3

\* C26: each of the three names buildChord returns for a well-formed name is
\* well-formed and resolves to a frequency above 0.
C26_TriadNamesAreResolvable ==
  (probe.fn = "buildChord" /\ WellFormed(probe.name))
  => (/\ Len(probe.chord) = 3
      /\ \A i \in 1..Len(probe.chord) :
           /\ WellFormed(probe.chord[i])
           /\ ~FreqFalsy(noteToFrequency(probe.chord[i])))

\* the registry entries that hold voice v, each with the position it holds it at
Holders(v) ==
  {<<id, k>> \in (DOMAIN activeNotes) \X (1..Len(voices)) :
     k <= Len(activeNotes[id].vs) /\ activeNotes[id].vs[k] = v}

\* how often stop() of voice v was invoked
StopCount(v) == Cardinality({k \in 1..Len(stopLog) : stopLog[k] = v})

\* C24: every voice that was created and not stopped is held by exactly one
\* registry entry, and stop() of no voice is invoked more than once.
C24_VoicesOwnedAndStoppedOnce ==
  \A v \in 1..Len(voices) :
    /\ StopCount(v) <= 1
    /\ StopCount(v) = 0 => Cardinality(Holders(v)) = 1

\* one identifier was stopped and played again while the other holds a chord
C24_Witness ==
  /\ Len(voices) = 3
  /\ stopLog = <<1>>
  /\ activeNotes["k1"] = [kind |-> "list", vs |-> <<2, 3>>]
  /\ activeNotes["k2"] = NoEntry

\* the recorder holds a take: a playable URL
HasTake(r) == r.recordedUrl # 0

\* C27: recording and holding a take exclude each other; the URL exists
\* exactly when the blob exists; a recording that ends is encoded exactly
\* once and no other step encodes; a take is not changed by any step but
\* clearRecording.
C27_RecorderStatesAreExclusive ==
  [][/\ ~(rec'.recording /\ HasTake(rec'))
     /\ HasTake(rec') <=> rec'.recordedBlob # NoBlob
     /\ (rec.recording /\ ~rec'.recording) <=> calls'.encode = calls.encode + 1
     /\ calls'.encode \in {calls.encode, calls.encode + 1}
     /\ (HasTake(rec) /\ lastCall'.op # "clearRecording")
        => (/\ rec'.recordedUrl = rec.recordedUrl
            /\ rec'.recordedBlob = rec.recordedBlob
            /\ rec.recordedUrl \in urls')]_vars

\* the second take of a run, made after the first was cleared
C27_Witness ==
  /\ calls.encode = 2
  /\ rec.recordedUrl = 2
  /\ rec.recordedBlob.total > 0
  /\ ~rec.recording
  /\ lastCall.op = "stopRecording"

\* the capture processors that are fed by the master bus
AttachedProcessors ==
  {k \in 1..(nextNode - 1) : Edge(Master, Tap(k)) \in edges /\ Edge(Tap(k), Proc(k)) \in edges}

\* C25: at most one capture processor is attached to the master bus at any
\* time.
C25_OneCaptureProcessor == Cardinality(AttachedProcessors) <= 1
====
